---- MODULE Spec2Model ----
(***************************************************************************)
(* Model of src/src/sql_database.py: the connect_to_localhost context      *)
(* manager (connection attempt, retry loop, guaranteed close) and          *)
(* create_schema (existence check, conflict prompt, DDL, seed rows,        *)
(* commit), run against a MySQL server whose DDL takes effect immediately  *)
(* and whose DML is held in the session's transaction until commit.        *)
(***************************************************************************)
EXTENDS Integers, Sequences, FiniteSets, TLC

(* ---------------------------------------------------------------------- *)
(* Bounds of the model                                                     *)
(* ---------------------------------------------------------------------- *)

\* The connector fails on its first failN attempts, failN \in 0..MaxFail.
\* The code makes at most 7 attempts, so every failN >= 7 is a connector
\* that never succeeds within one call.
MaxFail == 8

\* Responses the operator gives to one run's prompt, at most.
MaxPrompts == 3

\* Runs of create_schema the model has state for, and those that execute
\* in the sequential specification.
Runs == {1, 2}
SeqRuns == {1}

(* ---------------------------------------------------------------------- *)
(* Program constants                                                       *)
(* ---------------------------------------------------------------------- *)

\* The module-level name (line 22).
schema == "application_project_gaube"

\* Names a caller may pass as schema_name.
SchemaNames == {schema, "other_schema"}

\* The retry loop gives up once tries exceeds this (line 47).
RetryLimit == 5

\* The six tables in the order the code creates them (lines 104-167).
TableOrder_Swapped ==
    <<"dataset", "exam", "window_values", "hrv", "inter_beat_interval", "master_data">>

TableOrder ==
    <<"dataset", "exam", "hrv", "inter_beat_interval", "master_data", "window_values">>

\* The FOREIGN KEY clauses of each CREATE TABLE (lines 133-134, 148-149,
\* 163-165); a clause without ON DELETE restricts.
Key(c, p, a) == [col |-> c, parent |-> p, on_delete |-> a]

ForeignKeys_NoStudentKey(t) ==
    CASE t = "inter_beat_interval" ->
           {Key("student_id", "dataset", "CASCADE"), Key("term_id", "exam", "RESTRICT")}
      [] t = "master_data" ->
           {Key("student_id", "dataset", "CASCADE"), Key("term_id", "exam", "RESTRICT")}
      [] t = "window_values" ->
           {Key("term_id", "exam", "RESTRICT"), Key("parameter_id", "hrv", "RESTRICT")}
      [] OTHER -> {}

ForeignKeys(t) ==
    CASE t = "inter_beat_interval" ->
           {Key("student_id", "dataset", "CASCADE"), Key("term_id", "exam", "RESTRICT")}
      [] t = "master_data" ->
           {Key("student_id", "dataset", "CASCADE"), Key("term_id", "exam", "RESTRICT")}
      [] t = "window_values" ->
           {Key("student_id", "dataset", "CASCADE"), Key("term_id", "exam", "RESTRICT"),
            Key("parameter_id", "hrv", "RESTRICT")}
      [] OTHER -> {}

\* The tables each CREATE TABLE references by FOREIGN KEY.
References(t) == {k.parent : k \in ForeignKeys(t)}

\* The seed rows (lines 169 and 172).
ExamSeeds == <<"mid1", "mid2", "final">>

HrvSeeds_Dup == <<"nni_mean", "sdnn", "sdnn">>

HrvSeeds == <<"nni_mean", "sdnn">>

\* Responses the operator may type at the prompt.
Inputs == {"y", "Y", "n", "N", "yes", "no", "q", ""}

\* str.lower() on the responses above.
Lower_Identity(s) == s

Lower(s) ==
    CASE s = "Y" -> "y"
      [] s = "N" -> "n"
      [] OTHER   -> s

\* The branch the prompt loop takes on a response (lines 91-99).
Decision_Swapped(s) ==
    IF Lower(s) = "y" THEN "retain"
    ELSE IF Lower(s) = "n" THEN "replace"
    ELSE "invalid"

Decision_AlwaysReplace(s) ==
    IF Lower(s) = "y" \/ Lower(s) = "n" THEN "replace"
    ELSE "invalid"

Decision(s) ==
    IF Lower(s) = "y" THEN "replace"
    ELSE IF Lower(s) = "n" THEN "retain"
    ELSE "invalid"

(* ---------------------------------------------------------------------- *)
(* The database server                                                     *)
(* ---------------------------------------------------------------------- *)

\* A table is a sequence of rows; a row is [id, val].  A schema is a
\* function from the names of its tables to tables; the catalog is a
\* function from the names of the existing schemas to schemas.
Row(i, v) == [id |-> i, val |-> v]

\* The value of a row of inter_beat_interval, master_data or window_values:
\* its foreign-key columns, 0 for NULL (parameter_id is a column of
\* window_values only).
Fact(s, e, p) == [student_id |-> s, term_id |-> e, parameter_id |-> p]

EmptySchema == [t \in {} |-> <<>>]

Range(s) == {s[i] : i \in 1..Len(s)}

\* A schema as a complete provisioning run leaves it.
FreshSchema ==
    [t \in {"dataset", "exam", "hrv", "inter_beat_interval", "master_data",
            "window_values"} |->
        CASE t = "exam" -> <<Row(1, "mid1"), Row(2, "mid2"), Row(3, "final")>>
          [] t = "hrv"  -> <<Row(1, "nni_mean"), Row(2, "sdnn")>>
          [] OTHER      -> <<>>]

\* A provisioned schema after ingestion.
PopulatedSchema ==
    [FreshSchema EXCEPT !["dataset"] = <<Row(1, "S1"), Row(2, "S2")>>,
                        !["master_data"] = <<Row(1, Fact(1, 1, 0))>>,
                        !["exam"] = Append(@, Row(4, "extra"))]

\* A schema of that name somebody else made.
LegacySchema == [t \in {"legacy"} |-> <<Row(1, "old")>>]

\* A schema a failed run left behind.
PartialSchema == [t \in {"dataset", "exam"} |-> <<>>]

PriorSchemas == {FreshSchema, PopulatedSchema, LegacySchema, PartialSchema}

PriorCatalogs ==
    UNION {[S -> PriorSchemas] : S \in SUBSET SchemaNames}

(* ---------------------------------------------------------------------- *)
(* Errors                                                                  *)
(* ---------------------------------------------------------------------- *)

\* The error of the k-th connection attempt is named by k; 0 names no
\* error.  A raised error carries __cause__ (set by "raise .. from ..")
\* and __context__ (the error being handled when it was raised).
NoError == [msg |-> "", cause |-> 0, context |-> 0]

Top(stack) == IF Len(stack) = 0 THEN 0 ELSE stack[Len(stack)]

\* Entering an except clause makes its error the one being handled;
\* leaving the clause restores the one handled before.
EnterExcept(stack, e) == Append(stack, e)
ExitExcept(stack) == SubSeq(stack, 1, Len(stack) - 1)

\* raise mysql.connector.Error('Could not connect to database') (line 48):
\* no "from", so no cause; the context is the error being handled.
CouldNotConnect_FromLast(stack, last) ==
    [msg |-> "Could not connect to database", cause |-> last, context |-> last]

CouldNotConnect(stack, last) ==
    [msg |-> "Could not connect to database", cause |-> 0, context |-> Top(stack)]

\* What a traceback shows as the origin of an error.
UnderlyingCause(e) == IF e.cause # 0 THEN e.cause ELSE e.context

\* The error of a failed statement, raised in the body of the scope.
StatementError(op) == [msg |-> op, cause |-> 0, context |-> 0]

(* ---------------------------------------------------------------------- *)
(* State                                                                   *)
(* ---------------------------------------------------------------------- *)

VARIABLES
    run,        \* run[r]: the frame of the r-th create_schema call
    catalog,    \* the committed state of the server
    catalog0    \* the server's state when the runs began

vars == <<run, catalog, catalog0>>

\* The frame of a call before its first step.
NewRun(name, n) ==
    [ schema_name |-> name,    \* the argument of create_schema
      failN       |-> n,       \* the connector fails on its first n attempts
      pc          |-> "start",
      db          |-> "None",  \* None, open or closed
      tries       |-> 0,
      attempts    |-> 0,       \* calls of mysql.connector.connect
      sleeps      |-> 0,       \* calls of sleep(60)
      slept       |-> FALSE,   \* a sleep since the last attempt
      handling    |-> <<>>,    \* errors of the except clauses being executed
      lastFailed  |-> 0,       \* the attempt that failed last
      connError   |-> NoError, \* the error connect_to_localhost raised
      entered     |-> FALSE,   \* the body of the with statement was entered
      found       |-> FALSE,   \* cursor.fetchone() returned a row
      prompts     |-> 0,       \* calls of input()
      user_input  |-> "-",     \* the last response read, "-" before any
      idx         |-> 1,       \* position in the table and seed loops
      useDb       |-> "",      \* the session's default database
      pending     |-> <<>>,    \* inserts of the open transaction
      committed   |-> FALSE,   \* db.commit() returned
      log         |-> <<>>,    \* statements sent to the server
      exit        |-> "none",  \* how the body was left
      closeCount  |-> 0,       \* calls of db.close()
      bodyError   |-> NoError, \* the error raised in the body of the with
      error       |-> NoError, \* the error create_schema raised
      outcome     |-> "running" ]

InitFor(active) ==
    /\ catalog0 \in PriorCatalogs
    /\ catalog = catalog0
    /\ run \in [Runs -> {NewRun(name, n) : name \in SchemaNames, n \in 0..MaxFail}]
    /\ \A r \in Runs \ active : run[r] = NewRun(schema, 0)

Init == InitFor(SeqRuns)

\* The connector: attempt k fails iff k <= failN.
ConnectFails(me, k) == k <= me.failN

(* ---------------------------------------------------------------------- *)
(* connect_to_localhost: lines 35-62                                       *)
(* ---------------------------------------------------------------------- *)

\* Lines 35-45: db = None, the immediate attempt, and on failure tries = 0.
FirstConnect(r) ==
    LET me == run[r] IN
    /\ me.pc = "start"
    /\ run' = [run EXCEPT ![r] =
         IF ConnectFails(me, 1)
         THEN [me EXCEPT !.attempts = 1, !.lastFailed = 1,
                         !.handling = EnterExcept(@, 1),
                         !.tries = 0, !.pc = "retry_check"]
         ELSE [me EXCEPT !.attempts = 1, !.db = "open", !.pc = "yield"]]
    /\ UNCHANGED <<catalog, catalog0>>

\* Line 47: the loop gives up when tries > 5.
GivesUp_Never(tries) == FALSE

GivesUp(tries) == tries > RetryLimit

\* Lines 46-48: the head of the retry loop; raising leaves the except
\* clause of line 44 and runs the finally clause.
RetryCheck_Breaks(r) ==
    LET me == run[r] IN
    /\ me.pc = "retry_check"
    /\ run' = [run EXCEPT ![r] =
         IF GivesUp(me.tries)
         THEN [me EXCEPT !.handling = ExitExcept(@), !.pc = "yield"]
         ELSE [me EXCEPT !.pc = "sleep"]]
    /\ UNCHANGED <<catalog, catalog0>>

RetryCheck(r) ==
    LET me == run[r] IN
    /\ me.pc = "retry_check"
    /\ run' = [run EXCEPT ![r] =
         IF GivesUp(me.tries)
         THEN [me EXCEPT !.connError = CouldNotConnect(me.handling, me.lastFailed),
                         !.handling = ExitExcept(@),
                         !.pc = "finally"]
         ELSE [me EXCEPT !.pc = "sleep"]]
    /\ UNCHANGED <<catalog, catalog0>>

\* Line 49: sleep(60).
Sleep_Skipped(r) ==
    LET me == run[r] IN
    /\ me.pc = "sleep"
    /\ run' = [run EXCEPT ![r] = [me EXCEPT !.pc = "retry_connect"]]
    /\ UNCHANGED <<catalog, catalog0>>

Sleep(r) ==
    LET me == run[r] IN
    /\ me.pc = "sleep"
    /\ run' = [run EXCEPT ![r] =
         [me EXCEPT !.sleeps = @ + 1, !.slept = TRUE, !.pc = "retry_connect"]]
    /\ UNCHANGED <<catalog, catalog0>>

\* Lines 50-60: a retry attempt; success breaks out of the loop and of the
\* except clause of line 44, failure is handled by tries += 1.
RetryConnect(r) ==
    LET me == run[r]
        k == me.attempts + 1 IN
    /\ me.pc = "retry_connect"
    /\ run' = [run EXCEPT ![r] =
         IF ConnectFails(me, k)
         THEN [me EXCEPT !.attempts = k, !.lastFailed = k, !.slept = FALSE,
                         !.handling = ExitExcept(EnterExcept(@, k)),
                         !.tries = @ + 1, !.pc = "retry_check"]
         ELSE [me EXCEPT !.attempts = k, !.slept = FALSE,
                         !.db = "open",
                         !.handling = ExitExcept(@),
                         !.pc = "yield"]]
    /\ UNCHANGED <<catalog, catalog0>>

\* Line 62 and line 83: the handle is yielded, the body starts.
Yield(r) ==
    LET me == run[r] IN
    /\ me.pc = "yield"
    /\ run' = [run EXCEPT ![r] = [me EXCEPT !.entered = TRUE, !.pc = "select"]]
    /\ UNCHANGED <<catalog, catalog0>>

(* ---------------------------------------------------------------------- *)
(* The statements the server executes                                      *)
(* ---------------------------------------------------------------------- *)

HasSchema(cat, name) == name \in DOMAIN cat

\* DROP DATABASE name: the schema goes with every table and row in it.
DropDatabase(cat, name) == [n \in (DOMAIN cat) \ {name} |-> cat[n]]

\* CREATE DATABASE name (without IF NOT EXISTS) is refused while a schema
\* of that name exists.
CanCreateDatabase_IfNotExists(cat, name) == TRUE

CanCreateDatabase(cat, name) == ~HasSchema(cat, name)

\* CREATE DATABASE name: a schema without tables.
CreateDatabase(cat, name) ==
    [n \in (DOMAIN cat) \cup {name} |-> IF n = name THEN EmptySchema ELSE cat[n]]

\* CREATE TABLE t in schema d needs the schema, no table of that name and
\* the tables its foreign keys reference.
CanCreateTable(cat, d, t) ==
    /\ HasSchema(cat, d)
    /\ t \notin DOMAIN cat[d]
    /\ References(t) \subseteq DOMAIN cat[d]

CreateTable(cat, d, t) ==
    LET old == cat[d] IN
    [cat EXCEPT ![d] = [x \in (DOMAIN old) \cup {t} |-> IF x = t THEN <<>> ELSE old[x]]]

HasTable(cat, d, t) == HasSchema(cat, d) /\ t \in DOMAIN cat[d]

\* INSERT gives the row the next AUTO_INCREMENT id of its table, one more
\* than the greatest id in it.
Ids(rows) == {rows[i].id : i \in 1..Len(rows)}

NextId(rows) ==
    IF rows = <<>> THEN 1
    ELSE 1 + CHOOSE m \in Ids(rows) : \A i \in Ids(rows) : i <= m

InsertRow(rows, v) == Append(rows, Row(NextId(rows), v))

\* mysql.connector.connect is called without autocommit (lines 38-43, 51-56),
\* so the session's inserts wait for COMMIT.
Autocommit_On == TRUE

Autocommit == FALSE

\* COMMIT: the inserts of the transaction, in order, become visible.
RECURSIVE ApplyInserts(_, _, _)
ApplyInserts(cat, d, ins) ==
    IF Len(ins) = 0 \/ ~HasSchema(cat, d) THEN cat
    ELSE LET i == Head(ins)
             next == IF i.table \in DOMAIN cat[d]
                     THEN [cat EXCEPT ![d][i.table] = InsertRow(@, i.val)]
                     ELSE cat
         IN ApplyInserts(next, d, Tail(ins))

(* ---------------------------------------------------------------------- *)
(* create_schema: lines 81-175                                             *)
(* ---------------------------------------------------------------------- *)

\* The names the three statements interpolate (lines 84, 92, 101).
CheckedName(me) == schema
DroppedName(me) == schema
CreatedName(me) == me.schema_name

\* An INSERT joins the session's transaction, or is committed at once
\* under autocommit.
Inserted(me, t, v) ==
    IF Autocommit THEN me
    ELSE [me EXCEPT !.pending = Append(@, [table |-> t, val |-> v])]

AfterInsert(cat, me, t, v) ==
    IF Autocommit THEN ApplyInserts(cat, me.useDb, <<[table |-> t, val |-> v]>>)
    ELSE cat

Entry(op, arg, ok) == [op |-> op, arg |-> arg, ok |-> ok]

\* An error raised by a statement leaves the body; nothing in create_schema
\* catches it.
Raise_Swallowed(me, e) == [me EXCEPT !.exit = "normal", !.pc = "finally"]

Raise_Reconnect(me, e) == [me EXCEPT !.pc = "sleep"]

Raise(me, e) == [me EXCEPT !.bodyError = e, !.exit = "raise", !.pc = "finally"]

\* cursor.execute(..) / db.commit(): the server may refuse any statement
\* (permission, lost connection); one it cannot execute it always refuses.
Execute(r, op, arg, possible, after, cat) ==
    LET me == run[r] IN
    \E ok \in BOOLEAN :
        IF ok /\ possible
        THEN /\ run' = [run EXCEPT ![r] =
                  [after EXCEPT !.log = Append(me.log, Entry(op, arg, TRUE))]]
             /\ catalog' = cat
        ELSE /\ run' = [run EXCEPT ![r] =
                  Raise([me EXCEPT !.log = Append(me.log, Entry(op, arg, FALSE))],
                        StatementError(op))]
             /\ catalog' = catalog

\* Line 84: the catalog query.
Select(r) ==
    LET me == run[r] IN
    /\ me.pc = "select"
    /\ Execute(r, "SELECT", CheckedName(me), TRUE,
               [me EXCEPT !.found = HasSchema(catalog, CheckedName(me)),
                          !.pc = "fetchone"],
               catalog)
    /\ UNCHANGED catalog0

\* Line 86: if cursor.fetchone().
FetchOne_AutoDrop(r) ==
    LET me == run[r] IN
    /\ me.pc = "fetchone"
    /\ run' = [run EXCEPT ![r] =
         [me EXCEPT !.pc = IF me.found THEN "drop" ELSE "create_db"]]
    /\ UNCHANGED <<catalog, catalog0>>

FetchOne(r) ==
    LET me == run[r] IN
    /\ me.pc = "fetchone"
    /\ run' = [run EXCEPT ![r] =
         [me EXCEPT !.pc = IF me.found THEN "prompt" ELSE "create_db"]]
    /\ UNCHANGED <<catalog, catalog0>>

\* Lines 88-99: one pass of the prompt loop.
Prompt(r) ==
    LET me == run[r] IN
    /\ me.pc = "prompt"
    /\ me.prompts < MaxPrompts
    /\ \E user_input \in Inputs :
         run' = [run EXCEPT ![r] =
           CASE Decision(user_input) = "replace" ->
                  [me EXCEPT !.prompts = @ + 1, !.user_input = user_input,
                             !.pc = "drop"]
             [] Decision(user_input) = "retain" ->
                  [me EXCEPT !.prompts = @ + 1, !.user_input = user_input,
                             !.exit = "return", !.pc = "finally"]
             [] OTHER ->
                  [me EXCEPT !.prompts = @ + 1, !.user_input = user_input]]
    /\ UNCHANGED <<catalog, catalog0>>

\* Line 92: DROP DATABASE.
Drop(r) ==
    LET me == run[r] IN
    /\ me.pc = "drop"
    /\ Execute(r, "DROP DATABASE", DroppedName(me),
               HasSchema(catalog, DroppedName(me)),
               [me EXCEPT !.pc = "create_db"],
               DropDatabase(catalog, DroppedName(me)))
    /\ UNCHANGED catalog0

\* Line 101: CREATE DATABASE.
CreateDb(r) ==
    LET me == run[r] IN
    /\ me.pc = "create_db"
    /\ Execute(r, "CREATE DATABASE", CreatedName(me),
               CanCreateDatabase(catalog, CreatedName(me)),
               [me EXCEPT !.pc = "use"],
               CreateDatabase(catalog, CreatedName(me)))
    /\ UNCHANGED catalog0

\* Line 102: USE.
Use(r) ==
    LET me == run[r] IN
    /\ me.pc = "use"
    /\ Execute(r, "USE", CreatedName(me),
               HasSchema(catalog, CreatedName(me)),
               [me EXCEPT !.useDb = CreatedName(me), !.idx = 1, !.pc = "create_table"],
               catalog)
    /\ UNCHANGED catalog0

\* Lines 104-167: the six CREATE TABLE statements, one per step.
CreateTables(r) ==
    LET me == run[r]
        t == TableOrder[me.idx] IN
    /\ me.pc = "create_table"
    /\ Execute(r, "CREATE TABLE", t,
               CanCreateTable(catalog, me.useDb, t),
               IF me.idx < Len(TableOrder)
               THEN [me EXCEPT !.idx = @ + 1]
               ELSE [me EXCEPT !.idx = 1, !.pc = "insert_exam"],
               CreateTable(catalog, me.useDb, t))
    /\ UNCHANGED catalog0

\* Lines 169-170: one INSERT INTO exam per term.
InsertExam(r) ==
    LET me == run[r]
        v == ExamSeeds[me.idx] IN
    /\ me.pc = "insert_exam"
    /\ Execute(r, "INSERT exam", v,
               HasTable(catalog, me.useDb, "exam"),
               IF me.idx < Len(ExamSeeds)
               THEN [Inserted(me, "exam", v) EXCEPT !.idx = @ + 1]
               ELSE [Inserted(me, "exam", v) EXCEPT !.idx = 1, !.pc = "insert_hrv"],
               AfterInsert(catalog, me, "exam", v))
    /\ UNCHANGED catalog0

\* Lines 172-173: one INSERT INTO hrv per parameter.
InsertHrv(r) ==
    LET me == run[r]
        v == HrvSeeds[me.idx] IN
    /\ me.pc = "insert_hrv"
    /\ Execute(r, "INSERT hrv", v,
               HasTable(catalog, me.useDb, "hrv"),
               IF me.idx < Len(HrvSeeds)
               THEN [Inserted(me, "hrv", v) EXCEPT !.idx = @ + 1]
               ELSE [Inserted(me, "hrv", v) EXCEPT !.idx = 1, !.pc = "commit"],
               AfterInsert(catalog, me, "hrv", v))
    /\ UNCHANGED catalog0

\* Line 175: db.commit(); the body then completes.
Commit(r) ==
    LET me == run[r] IN
    /\ me.pc = "commit"
    /\ Execute(r, "COMMIT", "",
               TRUE,
               [me EXCEPT !.pending = <<>>, !.committed = TRUE,
                          !.exit = "normal", !.pc = "finally"],
               ApplyInserts(catalog, me.useDb, me.pending))
    /\ UNCHANGED catalog0

(* ---------------------------------------------------------------------- *)
(* Leaving the scope: lines 64-66 and the with statement of line 81        *)
(* ---------------------------------------------------------------------- *)

\* Line 65: if db is not None.
ShouldClose_Always(db) == TRUE

ShouldClose(db) == db # "None"

\* The with statement of line 81 has no handler around it: an error of
\* connect_to_localhost, or else one of the body, leaves create_schema as
\* it is.
Propagated_Wrapped(me) ==
    IF me.connError # NoError
    THEN [msg |-> "provisioning failed", cause |-> 0, context |-> 0]
    ELSE me.bodyError

Propagated(me) ==
    IF me.connError # NoError THEN me.connError ELSE me.bodyError

\* Lines 64-66, then the return or raise of create_schema.  Closing the
\* connection discards the inserts of an uncommitted transaction.
Finally(r) ==
    LET me == run[r]
        closed == IF ShouldClose(me.db)
                  THEN [me EXCEPT !.db = "closed", !.closeCount = @ + 1,
                                  !.pending = <<>>]
                  ELSE me IN
    /\ me.pc = "finally"
    /\ run' = [run EXCEPT ![r] =
         [closed EXCEPT !.error = Propagated(me),
                        !.outcome = IF Propagated(me) = NoError
                                    THEN "returned" ELSE "raised",
                        !.pc = "done"]]
    /\ UNCHANGED <<catalog, catalog0>>

(* ---------------------------------------------------------------------- *)
(* Specification                                                           *)
(* ---------------------------------------------------------------------- *)

Step(r) ==
    \/ FirstConnect(r)
    \/ RetryCheck(r)
    \/ Sleep(r)
    \/ RetryConnect(r)
    \/ Yield(r)
    \/ Select(r)
    \/ FetchOne(r)
    \/ Prompt(r)
    \/ Drop(r)
    \/ CreateDb(r)
    \/ Use(r)
    \/ CreateTables(r)
    \/ InsertExam(r)
    \/ InsertHrv(r)
    \/ Commit(r)
    \/ Finally(r)

Next == \E r \in SeqRuns : Step(r)

Spec == Init /\ [][Next]_vars

(* ---------------------------------------------------------------------- *)
(* Rows in the provisioned schema                                          *)
(* ---------------------------------------------------------------------- *)

\* Statements of other sessions on the tables of lines 104-167 once a run
\* has provisioned them; each is committed by its session at once.  The
\* server enforces the constraints the CREATE TABLE statements declare.

\* Ids of dataset never exceed MaxStudents, and the three tables with
\* foreign keys never hold more than MaxFacts rows together.
MaxStudents == 2
MaxFacts == 2

StudentCodes == {"S1", "S2"}
TermIds == {0, 1}
ParameterIds == {0, 1}

FactTables == {"inter_beat_interval", "master_data", "window_values"}

Provisioned(d) ==
    /\ HasSchema(catalog, d)
    /\ \E r \in Runs :
          /\ run[r].pc = "done"
          /\ run[r].outcome = "returned"
          /\ run[r].committed
          /\ run[r].schema_name = d

FactCount(s) == Len(s["inter_beat_interval"]) + Len(s["master_data"])
                    + Len(s["window_values"])

\* A row may be inserted if each of its foreign-key columns is NULL or
\* holds the id of a row of the referenced table.
SatisfiesKeys(s, t, v) ==
    \A k \in ForeignKeys(t) : v[k.col] = 0 \/ v[k.col] \in Ids(s[k.parent])

\* The rows of table t that reference row id of table parent.
Referencing(s, t, parent, id) ==
    {i \in 1..Len(s[t]) :
        \E k \in ForeignKeys(t) : k.parent = parent /\ s[t][i].val[k.col] = id}

\* A restricting key with a referencing row refuses the delete.
Restricted(s, parent, id) ==
    \E t \in FactTables : \E k \in ForeignKeys(t) :
        /\ k.parent = parent
        /\ k.on_delete = "RESTRICT"
        /\ \E i \in 1..Len(s[t]) : s[t][i].val[k.col] = id

Without(rows, gone) ==
    LET Keep(x) == \A i \in gone : rows[i] # x IN SelectSeq(rows, Keep)

\* DELETE FROM parent WHERE id = ..: the row goes, and with it the rows
\* that reference it through a cascading key.
DeleteRow(s, parent, id) ==
    [t \in DOMAIN s |->
        IF t = parent THEN SelectSeq(s[t], LAMBDA x : x.id # id)
        ELSE IF t \in FactTables
        THEN Without(s[t],
                 {i \in Referencing(s, t, parent, id) :
                     \E k \in ForeignKeys(t) :
                         /\ k.parent = parent
                         /\ k.on_delete = "CASCADE"
                         /\ s[t][i].val[k.col] = id})
        ELSE s[t]]

\* INSERT INTO dataset (student): the code is UNIQUE (line 107).
AddStudent(d) ==
    /\ Provisioned(d)
    /\ \E code \in StudentCodes :
          LET rows == catalog[d]["dataset"] IN
          /\ \A i \in 1..Len(rows) : rows[i].val # code
          /\ NextId(rows) <= MaxStudents
          /\ catalog' = [catalog EXCEPT ![d]["dataset"] = InsertRow(rows, code)]
    /\ UNCHANGED <<run, catalog0>>

\* INSERT INTO inter_beat_interval / master_data / window_values.
AddFact(d) ==
    /\ Provisioned(d)
    /\ FactCount(catalog[d]) < MaxFacts
    /\ \E t \in FactTables, st \in 0..MaxStudents, e \in TermIds, p \in ParameterIds :
          /\ t # "window_values" => p = 0
          /\ SatisfiesKeys(catalog[d], t, Fact(st, e, p))
          /\ catalog' = [catalog EXCEPT ![d][t] = InsertRow(@, Fact(st, e, p))]
    /\ UNCHANGED <<run, catalog0>>

\* DELETE FROM dataset WHERE id = ..
DeleteStudent(d) ==
    /\ Provisioned(d)
    /\ \E id \in Ids(catalog[d]["dataset"]) :
          /\ ~Restricted(catalog[d], "dataset", id)
          /\ catalog' = [catalog EXCEPT ![d] = DeleteRow(@, "dataset", id)]
    /\ UNCHANGED <<run, catalog0>>

\* The frame and the statements of a call that found no schema, connected
\* at once and completed: the state in which the rows above are inserted
\* and deleted.
ProvisionedLog ==
    <<Entry("SELECT", schema, TRUE), Entry("CREATE DATABASE", schema, TRUE),
      Entry("USE", schema, TRUE)>>
    \o [i \in 1..Len(TableOrder) |-> Entry("CREATE TABLE", TableOrder[i], TRUE)]
    \o [i \in 1..Len(ExamSeeds) |-> Entry("INSERT exam", ExamSeeds[i], TRUE)]
    \o [i \in 1..Len(HrvSeeds) |-> Entry("INSERT hrv", HrvSeeds[i], TRUE)]
    \o <<Entry("COMMIT", "", TRUE)>>

ProvisionedRun ==
    [NewRun(schema, 0) EXCEPT !.pc = "done", !.db = "closed", !.attempts = 1,
                              !.entered = TRUE, !.useDb = schema,
                              !.log = ProvisionedLog, !.committed = TRUE,
                              !.exit = "normal", !.closeCount = 1,
                              !.outcome = "returned"]

InitData ==
    /\ catalog0 = [n \in {} |-> FreshSchema]
    /\ catalog = [n \in {schema} |-> FreshSchema]
    /\ run = [r \in Runs |-> IF r \in SeqRuns THEN ProvisionedRun
                                             ELSE NewRun(schema, 0)]

NextData ==
    \/ AddStudent(schema)
    \/ AddFact(schema)
    \/ DeleteStudent(schema)

\* A call runs on one thread that is never suspended for good: a step that
\* can be taken is taken.
SpecLive == Init /\ [][Next]_vars /\ \A r \in SeqRuns : WF_vars(Step(r))

SpecData == InitData /\ [][NextData]_vars

(* ---------------------------------------------------------------------- *)
(* Two calls at once                                                       *)
(* ---------------------------------------------------------------------- *)

\* Two processes call create_schema with the configured name, each over
\* its own connection; their steps interleave.
InitRace ==
    /\ catalog0 \in {[n \in {} |-> PartialSchema], [n \in {schema} |-> PartialSchema]}
    /\ catalog = catalog0
    /\ run \in [Runs -> {NewRun(schema, n) : n \in 0..1}]

NextRace == \E r \in Runs : Step(r)

SpecRace == InitRace /\ [][NextRace]_vars

(* ---------------------------------------------------------------------- *)
(* Properties                                                              *)
(* ---------------------------------------------------------------------- *)

\* The connection phase of run r is over: a handle was yielded or the
\* connection error was raised.
Yielded(me) == me.pc = "yield" \/ me.entered
ConnectRaised(me) == me.connError # NoError
PhaseOver(me) == Yielded(me) \/ ConnectRaised(me)

\* Some connection attempt of the call succeeded.
Opened(me) == me.attempts > me.failN

HasFailed(me, ops) ==
    \E i \in 1..Len(me.log) : ~me.log[i].ok /\ me.log[i].op \in ops

Issued(me, ops) ==
    \E i \in 1..Len(me.log) : me.log[i].op \in ops

\* C1: with a connector that fails on exactly its first N attempts,
\* connect_to_localhost yields a connection iff N <= 5 and raises the
\* connection error iff N > 5, after at most 1 + 5 attempts.
C1_RetryBound ==
    \A r \in SeqRuns :
        LET me == run[r] IN
        /\ me.attempts <= 1 + 5
        /\ PhaseOver(me) =>
             /\ Yielded(me) <=> me.failN <= 5
             /\ ConnectRaised(me) <=> me.failN > 5

\* C2: however the scope is left (body completes, returns early, raises),
\* close is called exactly once on the opened connection, never twice and
\* never omitted; when no attempt succeeded close is never called.
C2_CloseExactlyOnce ==
    \A r \in SeqRuns :
        LET me == run[r] IN
        /\ me.closeCount <= 1
        /\ me.closeCount = 1 => me.pc = "done" /\ Opened(me)
        /\ me.pc = "done" => me.closeCount = (IF Opened(me) THEN 1 ELSE 0)
        /\ me.pc = "done" /\ Opened(me) => me.exit \in {"normal", "return", "raise"}

C2_Witness ==
    \E r \in SeqRuns :
        /\ run[r].pc = "done"
        /\ run[r].exit = "raise"
        /\ run[r].attempts > 1
        /\ run[r].closeCount = 1

\* C3 as stated: when every attempt fails, the error raised carries as its
\* underlying cause the error of the last failed attempt.
C3_LastCause ==
    \A r \in SeqRuns :
        LET me == run[r] IN
        ConnectRaised(me) => UnderlyingCause(me.connError) = me.lastFailed

\* C3 amended: when every attempt fails, the error raised has no explicit
\* cause and carries as its context the error of the first, immediate
\* attempt, whose except clause the raise statement is in.
C3_FirstContext ==
    \A r \in SeqRuns :
        LET me == run[r] IN
        ConnectRaised(me) =>
            /\ me.connError.cause = 0
            /\ me.connError.context = 1
            /\ UnderlyingCause(me.connError) = 1

C3_Witness ==
    \E r \in SeqRuns :
        /\ ConnectRaised(run[r])
        /\ run[r].lastFailed > 1
        /\ run[r].attempts = run[r].lastFailed
        /\ run[r].outcome = "raised"

\* C4: when the existence check finds the schema and the response is
\* retain ('n'), create_schema returns normally having issued nothing but
\* the catalog query: no DROP, CREATE, INSERT or commit, and every schema
\* and table is as it was before the call.
C4_RetainNoOp ==
    \A r \in SeqRuns :
        LET me == run[r] IN
        me.found /\ Lower(me.user_input) = "n" =>
            /\ me.log = <<Entry("SELECT", schema, TRUE)>>
            /\ ~me.committed
            /\ catalog = catalog0
            /\ me.pc \in {"finally", "done"}
            /\ me.pc = "done" => me.outcome = "returned" /\ me.error = NoError

C4_Witness ==
    \E r \in SeqRuns :
        /\ run[r].pc = "done"
        /\ run[r].found
        /\ run[r].user_input = "N"
        /\ run[r].outcome = "returned"
        /\ catalog[schema] = PopulatedSchema

\* C5: called with the configured name while that schema exists with
\* arbitrary tables and rows, and answered replace ('y'), a run that
\* completes successfully leaves nothing of the prior schema and a fresh
\* schema of that name with the six tables and only the five seed rows.
C5_ReplaceFresh ==
    \A r \in SeqRuns :
        LET me == run[r] IN
        /\ me.pc = "done"
        /\ me.outcome = "returned"
        /\ me.schema_name = schema
        /\ HasSchema(catalog0, schema)
        /\ Lower(me.user_input) = "y"
        => /\ HasSchema(catalog, schema)
           /\ catalog[schema] = FreshSchema
           /\ Issued(me, {"DROP DATABASE"})

C5_Witness ==
    \E r \in SeqRuns :
        /\ run[r].pc = "done"
        /\ run[r].outcome = "returned"
        /\ run[r].schema_name = schema
        /\ run[r].user_input = "y"
        /\ HasSchema(catalog0, schema)
        /\ catalog0[schema] = PopulatedSchema
        /\ catalog[schema] = FreshSchema

\* The values of a table's rows, and the tables of a schema.
Vals(rows) == {rows[i].val : i \in 1..Len(rows)}

\* C6: after every run that completes successfully having created the
\* schema, the schema holds exactly six tables, exam holds exactly the 3
\* rows mid1, mid2, final, hrv exactly the 2 rows nni_mean, sdnn, the four
\* other tables are empty, and the transaction has been committed.
C6_SeededAndCommitted ==
    \A r \in SeqRuns :
        LET me == run[r] IN
        /\ me.pc = "done"
        /\ me.outcome = "returned"
        /\ Lower(me.user_input) # "n"
        => /\ me.committed
           /\ me.pending = <<>>
           /\ HasSchema(catalog, me.schema_name)
           /\ LET s == catalog[me.schema_name] IN
              /\ DOMAIN s = {"dataset", "exam", "hrv", "inter_beat_interval",
                             "master_data", "window_values"}
              /\ Len(s["exam"]) = 3
              /\ Vals(s["exam"]) = {"mid1", "mid2", "final"}
              /\ Len(s["hrv"]) = 2
              /\ Vals(s["hrv"]) = {"nni_mean", "sdnn"}
              /\ \A t \in {"dataset", "inter_beat_interval", "master_data",
                           "window_values"} : s[t] = <<>>

C6_Witness ==
    \E r \in SeqRuns :
        /\ run[r].pc = "done"
        /\ run[r].outcome = "returned"
        /\ run[r].committed
        /\ ~run[r].found
        /\ catalog0 = <<>>
        /\ Len(catalog[run[r].schema_name]["exam"]) = 3
        /\ run[r] = ProvisionedRun
        /\ catalog = [n \in {schema} |-> FreshSchema]

\* C7: the existence check, the drop and the create all name schema_name;
\* so CREATE DATABASE schema_name is never issued while a schema of that
\* name exists, and an existing schema of that name always leads to the
\* conflict prompt.
C7_SameName ==
    \A r \in SeqRuns :
        LET me == run[r] IN
        /\ \A i \in 1..Len(me.log) :
              me.log[i].op \in {"SELECT", "DROP DATABASE", "CREATE DATABASE"}
                  => me.log[i].arg = me.schema_name
        /\ me.pc = "create_db" => ~HasSchema(catalog, me.schema_name)
        /\ me.pc = "create_db" /\ HasSchema(catalog0, me.schema_name)
              => me.prompts > 0

\* C8: if a CREATE TABLE, a seed INSERT or the commit fails, the failure
\* is raised to the caller, nothing (no commit) is issued after the failing
\* statement, and the run never returns normally.
PostCreateOps == {"CREATE TABLE", "INSERT exam", "INSERT hrv", "COMMIT"}

C8_FailureSurfaced ==
    \A r \in SeqRuns :
        LET me == run[r] IN
        HasFailed(me, PostCreateOps) =>
            /\ ~me.log[Len(me.log)].ok
            /\ \A i \in 1..(Len(me.log) - 1) : me.log[i].ok
            /\ ~me.committed
            /\ me.outcome # "returned"
            /\ me.pc \in {"finally", "done"}
            /\ me.pc = "done" =>
                 /\ me.outcome = "raised"
                 /\ me.error = StatementError(me.log[Len(me.log)].op)

C8_Witness ==
    \E r \in SeqRuns :
        /\ run[r].pc = "done"
        /\ HasFailed(run[r], {"INSERT hrv"})
        /\ run[r].outcome = "raised"
        /\ run[r].closeCount = 1

\* The schema a run created, as seen from outside the run.
CreatedBy(me) ==
    \E i \in 1..Len(me.log) : me.log[i].op = "CREATE DATABASE" /\ me.log[i].ok

NoRows(s) == \A t \in DOMAIN s : s[t] = <<>>

IsPrefixOfTables(ts) ==
    \E n \in 0..6 :
        ts = {(<<"dataset", "exam", "hrv", "inter_beat_interval", "master_data",
                 "window_values">>)[i] : i \in 1..n}

\* C9 as stated: tables and seed rows take effect atomically at the final
\* commit; outside the run the schema is never seen with some but not all
\* of its six tables and five seed rows.
C9_AllOrNothing ==
    \A r \in SeqRuns :
        LET me == run[r] IN
        CreatedBy(me) /\ HasSchema(catalog, me.schema_name) =>
            \/ DOMAIN catalog[me.schema_name] = {}
            \/ catalog[me.schema_name] = FreshSchema

\* C9 amended: only the five seed rows take effect atomically at the final
\* commit; the schema and each table are visible outside the run as soon
\* as they are created, so the schema is seen with a prefix of its six
\* tables, and with either none of its seed rows (until the commit, and
\* after a failure) or all five (after the commit).
C9_SeedsAtomic ==
    \A r \in SeqRuns :
        LET me == run[r] IN
        CreatedBy(me) /\ HasSchema(catalog, me.schema_name) =>
            LET s == catalog[me.schema_name] IN
            /\ IsPrefixOfTables(DOMAIN s)
            /\ ~me.committed => NoRows(s)
            /\ me.committed => s = FreshSchema

C9_Witness ==
    \E r \in SeqRuns :
        /\ run[r].pc = "done"
        /\ run[r].outcome = "raised"
        /\ HasFailed(run[r], {"INSERT hrv"})
        /\ HasSchema(catalog, run[r].schema_name)
        /\ Cardinality(DOMAIN catalog[run[r].schema_name]) = 6
        /\ NoRows(catalog[run[r].schema_name])

\* C10: when connect_to_localhost fails after its retries, create_schema
\* raises that very error, unwrapped and unchanged, and executes no catalog
\* query, prompt, DROP, CREATE, INSERT or commit.
C10_ConnectErrorUnchanged ==
    \A r \in SeqRuns :
        LET me == run[r] IN
        ConnectRaised(me) =>
            /\ me.log = <<>>
            /\ me.prompts = 0
            /\ ~me.entered
            /\ catalog = catalog0
            /\ me.pc \in {"finally", "done"}
            /\ me.pc = "done" => me.outcome = "raised" /\ me.error = me.connError

C10_Witness ==
    \E r \in SeqRuns :
        /\ run[r].pc = "done"
        /\ ConnectRaised(run[r])
        /\ run[r].error.msg = "Could not connect to database"
        /\ run[r].closeCount = 0

\* C11: the prompt accepts exactly the two answers yes ('y') and no
\* ('n'), in either case; every other response shows the prompt again,
\* with no DROP or CREATE issued and no decision taken, however many
\* invalid responses follow one another, and raises no error.
C11_PromptLoop ==
    \A r \in SeqRuns :
        LET me == run[r] IN
        me.user_input # "-" =>
            /\ me.user_input \in {"y", "Y"} =>
                 /\ me.pc # "prompt"
                 /\ Len(me.log) >= 2 => me.log[2].op = "DROP DATABASE"
            /\ me.user_input \in {"n", "N"} => me.pc \in {"finally", "done"}
            /\ me.user_input \notin {"y", "Y", "n", "N"} =>
                 /\ me.pc = "prompt"
                 /\ me.log = <<Entry("SELECT", schema, TRUE)>>
                 /\ catalog = catalog0
                 /\ me.exit = "none"
                 /\ me.bodyError = NoError
                 /\ me.outcome = "running"

C11_Witness ==
    \E r \in SeqRuns :
        /\ run[r].pc = "prompt"
        /\ run[r].prompts >= 2
        /\ run[r].user_input = "q"
        /\ HasSchema(catalog, schema)

\* No row of the three tables names a student that does not exist.
NoOrphans(s) ==
    \A t \in FactTables : \A i \in 1..Len(s[t]) :
        s[t][i].val.student_id = 0 \/ s[t][i].val.student_id \in Ids(s["dataset"])

\* A step that deletes student id removes exactly the rows of the three
\* tables whose student_id is id, and no other row of any table.
DeleteCascades ==
    \A id \in 1..MaxStudents :
        /\ Provisioned(schema)
        /\ Provisioned(schema)'
        /\ id \in Ids(catalog[schema]["dataset"])
        /\ id \notin Ids(catalog'[schema]["dataset"])
        => /\ \A t \in FactTables :
                catalog'[schema][t] =
                    SelectSeq(catalog[schema][t], LAMBDA x : x.val.student_id # id)
           /\ catalog'[schema]["dataset"] =
                    SelectSeq(catalog[schema]["dataset"], LAMBDA x : x.id # id)
           /\ catalog'[schema]["exam"] = catalog[schema]["exam"]
           /\ catalog'[schema]["hrv"] = catalog[schema]["hrv"]

\* C12: in the provisioned schema, deleting a dataset row removes every
\* inter_beat_interval, master_data and window_values row whose student_id
\* references it and leaves the rows of other students unchanged; after
\* any sequence of inserts and student deletions no row of the three
\* tables references a student id that no longer exists.
C12_CascadeDelete ==
    /\ [](Provisioned(schema) => NoOrphans(catalog[schema]))
    /\ [][DeleteCascades]_vars

C12_Witness ==
    /\ Provisioned(schema)
    /\ Ids(catalog[schema]["dataset"]) = {2}
    /\ FactCount(catalog[schema]) = 1
    /\ \E t \in FactTables :
          /\ Len(catalog[schema][t]) = 1
          /\ catalog[schema][t][1].id = 2
          /\ catalog[schema][t][1].val.student_id = 2

\* C13: after any sequence of insertions the provisioned schema accepts,
\* master_data holds at most one row for each (student_id, term_id) pair
\* of an existing student and term.
C13_OnePerStudentTerm ==
    Provisioned(schema) =>
        LET rows == catalog[schema]["master_data"] IN
        \A i, j \in 1..Len(rows) :
            /\ rows[i].val.student_id # 0
            /\ rows[i].val.term_id # 0
            /\ rows[i].val.student_id = rows[j].val.student_id
            /\ rows[i].val.term_id = rows[j].val.term_id
            => i = j

\* C14: in every run dataset, exam and hrv are created before
\* inter_beat_interval, master_data and window_values; when a table with a
\* foreign key is created every table it references exists, so no CREATE
\* TABLE of the run fails for a missing foreign-key target.
C14_DependencyOrder ==
    \A r \in SeqRuns :
        LET me == run[r] IN
        /\ \A i \in 1..Len(me.log) :
              /\ me.log[i].op = "CREATE TABLE"
              /\ me.log[i].arg \in {"inter_beat_interval", "master_data", "window_values"}
              => \A p \in {"dataset", "exam", "hrv"} :
                    \E j \in 1..(i - 1) : me.log[j] = Entry("CREATE TABLE", p, TRUE)
        /\ me.pc = "create_table" =>
              /\ HasSchema(catalog, me.useDb)
              /\ \A k \in ForeignKeys(TableOrder[me.idx]) :
                    k.parent \in DOMAIN catalog[me.useDb]

C14_Witness ==
    \E r \in SeqRuns :
        /\ run[r].pc = "insert_exam"
        /\ Len(run[r].log) >= 8
        /\ run[r].log[Len(run[r].log)] = Entry("CREATE TABLE", "window_values", TRUE)
        /\ DOMAIN catalog[run[r].useDb] = FactTables \cup {"dataset", "exam", "hrv"}

\* Nothing is sent twice, and nothing is sent after a statement failed.
SentOnce(me) ==
    /\ \A i, j \in 1..Len(me.log) :
          me.log[i].op = me.log[j].op /\ me.log[i].arg = me.log[j].arg => i = j
    /\ \A i \in 1..Len(me.log) : ~me.log[i].ok => i = Len(me.log)

\* Once the body is entered no connection attempt and no wait follows.
NoReconnect ==
    \A r \in SeqRuns :
        run[r].entered =>
            /\ run'[r].attempts = run[r].attempts
            /\ run'[r].sleeps = run[r].sleeps

\* C15: only the initial connection is retried: a failed statement in the
\* scope triggers no further connection attempt and no wait, and within
\* one run every statement is executed at most once.
C15_NoStatementRetry ==
    /\ [](\A r \in SeqRuns : SentOnce(run[r]))
    /\ [][NoReconnect]_vars

C15_Witness ==
    \E r \in SeqRuns :
        /\ run[r].pc = "done"
        /\ HasFailed(run[r], {"CREATE TABLE"})
        /\ run[r].attempts = 2
        /\ run[r].sleeps = 1
        /\ run[r].outcome = "raised"

\* Run r saw no schema at its existence check and sent CREATE DATABASE.
RacedCreate(r) ==
    /\ ~run[r].found
    /\ \E i \in 1..Len(run[r].log) :
          /\ run[r].log[i].op = "CREATE DATABASE"
          /\ run[r].log[i].arg = schema
    /\ run[r].log[1] = Entry("SELECT", schema, TRUE)

CreateOk(r) == Entry("CREATE DATABASE", schema, TRUE) \in Range(run[r].log)

\* C16: two runs for the same name, interleaved with no guard between
\* them, can both pass the existence check seeing no schema and both send
\* CREATE DATABASE for that name; whenever they do, one of them fails.
C16_RaceOneFails ==
    RacedCreate(1) /\ RacedCreate(2) =>
        /\ ~(CreateOk(1) /\ CreateOk(2))
        /\ \E r \in Runs :
              /\ ~CreateOk(r)
              /\ run[r].pc \in {"finally", "done"}
              /\ run[r].bodyError = StatementError("CREATE DATABASE")

C16_Witness ==
    /\ RacedCreate(1)
    /\ RacedCreate(2)
    /\ CreateOk(1)
    /\ ~CreateOk(2)
    /\ run[2].pc = "done"
    /\ run[2].outcome = "raised"
    /\ run[1].pc = "done"
    /\ run[1].outcome = "returned"

\* C17: the first attempt is made with no wait before it, every later
\* attempt is preceded by exactly one sleep(60), and no wait follows a
\* successful attempt or the last failed attempt before the error is raised.
C17_WaitBeforeRetryOnly ==
    \A r \in SeqRuns :
        LET me == run[r] IN
        /\ me.attempts = 0 => me.sleeps = 0 /\ ~me.slept
        /\ me.pc = "retry_connect" => me.slept /\ me.sleeps = me.attempts
        /\ me.attempts >= 1 /\ me.pc # "retry_connect" =>
              ~me.slept /\ me.sleeps = me.attempts - 1

C17_Witness ==
    \E r \in SeqRuns :
        /\ run[r].pc = "done"
        /\ ConnectRaised(run[r])
        /\ run[r].attempts > 2
        /\ run[r].sleeps = run[r].attempts - 1

\* C18: DROP DATABASE is executed only in a run whose existence check
\* found the schema, only directly after a replace response ('y'), and at
\* most once; and when the check found the schema no CREATE DATABASE is
\* issued before such a response.
C18_NoAutoDecision ==
    \A r \in SeqRuns :
        LET me == run[r] IN
        /\ \A i \in 1..Len(me.log) :
              me.log[i].op = "DROP DATABASE" =>
                  /\ me.found
                  /\ me.user_input \in {"y", "Y"}
                  /\ i = 2
        /\ me.pc = "drop" => me.found /\ me.user_input \in {"y", "Y"}
        /\ me.found /\ (me.pc = "create_db" \/ Issued(me, {"CREATE DATABASE"})) =>
              /\ me.user_input \in {"y", "Y"}
              /\ Len(me.log) >= 2
              /\ me.log[2] = Entry("DROP DATABASE", schema, TRUE)

C18_Witness ==
    \E r \in SeqRuns :
        /\ run[r].found
        /\ run[r].prompts = 2
        /\ run[r].user_input = "Y"
        /\ Issued(run[r], {"DROP DATABASE"})
        /\ Issued(run[r], {"CREATE DATABASE"})

\* C19: the body of the scope runs only with a live connection: the handle
\* is yielded only after an attempt succeeded and is never None, and when
\* all attempts fail the body is never entered.
C19_LiveHandle ==
    \A r \in SeqRuns :
        LET me == run[r] IN
        /\ Yielded(me) => Opened(me) /\ me.db # "None"
        /\ me.entered /\ me.pc # "done" => me.db = "open"
        /\ ConnectRaised(me) => ~me.entered /\ me.db = "None" /\ me.pc # "yield"
        /\ ~Opened(me) => ~me.entered

C19_Witness ==
    \E r \in SeqRuns :
        /\ run[r].entered
        /\ run[r].pc = "commit"
        /\ run[r].attempts > 1
        /\ run[r].db = "open"

\* C20: whatever the connector does, the connection phase ends: it yields
\* a connection or raises the connection error, after a bounded number of
\* attempts, and never retries forever.
C20_ConnectTerminates ==
    /\ [](\A r \in SeqRuns : run[r].attempts <= RetryLimit + 2)
    /\ <>(\A r \in SeqRuns : PhaseOver(run[r]))

C20_Witness ==
    \E r \in SeqRuns :
        /\ ConnectRaised(run[r])
        /\ run[r].attempts = RetryLimit + 2
        /\ run[r].failN = MaxFail

====
